---- MODULE Spec2Model ----
(***************************************************************************)
(* Usage metering of the virtual try-on backend                            *)
(* (src/backend/routes/virtual_tryon.py).  The tryon_usage collection is   *)
(* a sequence of documents; every request handler is cut at its database   *)
(* awaits, so handlers of different requests interleave between two        *)
(* database operations exactly as coroutines on the event loop and         *)
(* several server processes do.                                            *)
(***************************************************************************)
EXTENDS Integers, Sequences, FiniteSets, TLC

VARIABLES
    tryon_usage,    \* the tryon_usage collection: a sequence of documents
    clock,          \* the UTC date datetime.utcnow() returns
    procs,          \* the frame of the request each process serves
    started,        \* the number of requests received
    env,            \* the clients: how they send requests, their tier
    hist,           \* the answers a logged client got, in order
    tryon_predictions,  \* the tryon_predictions collection
    fashn           \* the status of prediction pr1 at the try-on service

vars == <<tryon_usage, clock, procs, started, env, hist, tryon_predictions, fashn>>

-----------------------------------------------------------------------------
(* Bounds of the model *)

NumProcs == 2
MaxRequests == 2
NumYears == 2
MonthsPerYear == 2
DaysPerMonth == 2

(* Program constants *)

MonthlyLimit == 40
FreeDailyLimit == 1
SubscribedDailyLimit == 40

Procs == 1..NumProcs
Devices == {"d1"}
Users == {"u1"}

None == "None"
AbsentId == "absent"
Absent == 0 - 1

-----------------------------------------------------------------------------
(* Calendar: a UTC date is the number of days since the first modelled day *)

MaxDate == NumYears * MonthsPerYear * DaysPerMonth - 1
Dates == 0..MaxDate

\* now.replace(day=1, hour=0, ...): the first day of the month of t
FirstOfMonth(t) == t - (t % DaysPerMonth)
\* datetime.date().month: the month number within the year, 1-based
MonthOf(t) == ((t \div DaysPerMonth) % MonthsPerYear) + 1
YearOf(t) == t \div (DaysPerMonth * MonthsPerYear)

-----------------------------------------------------------------------------
(* Documents of tryon_usage.  A field the document does not hold is Absent *)
(* (AbsentId for the two id fields).                                        *)

NoDoc ==
    [device_id |-> AbsentId, user_id |-> AbsentId,
     daily_count |-> Absent, monthly_count |-> Absent, total_count |-> Absent,
     last_reset_daily |-> Absent, last_reset_monthly |-> Absent,
     last_reset |-> Absent]

\* dict.get(field, default)
Get(doc, field, default) ==
    IF doc[field] = Absent THEN default ELSE doc[field]

\* a query that ignores its filter and matches every document
MatchesAny(doc, field, value) == TRUE

\* a query {field: value}: a null value matches a null or missing field
Matches(doc, field, value) ==
    IF value = None THEN doc[field] \in {None, AbsentId} ELSE doc[field] = value

\* index of the first document matching {field: value}, 0 when there is none
FindIndex(coll, field, value) ==
    IF \E i \in 1..Len(coll) : Matches(coll[i], field, value)
    THEN CHOOSE i \in 1..Len(coll) :
            /\ Matches(coll[i], field, value)
            /\ \A j \in 1..(i - 1) : ~Matches(coll[j], field, value)
    ELSE 0

Found(coll, field, value) == FindIndex(coll, field, value) # 0

\* collection.find_one({field: value})
FindOne(coll, field, value) ==
    IF Found(coll, field, value) THEN coll[FindIndex(coll, field, value)] ELSE NoDoc

\* collection.insert_one(doc)
InsertOne(coll, doc) == Append(coll, doc)

\* $inc on one field: a missing field counts as 0
IncField(doc, field, by) ==
    [doc EXCEPT ![field] = Get(doc, field, 0) + by]

\* collection.update_one({field: value}, ...): the first matching document
\* becomes updated, the update applied to it; nothing happens when none
\* matches (no upsert)
UpdateOne(coll, field, value, updated) ==
    IF Found(coll, field, value)
    THEN [coll EXCEPT ![FindIndex(coll, field, value)] = updated]
    ELSE coll

-----------------------------------------------------------------------------
(* Request handlers.  procs[p] is the frame of the request process p is     *)
(* serving: its parameters, its local variables and its answer.             *)

Counts(d, m, t) == [daily_count |-> d, monthly_count |-> m, total_count |-> t]

Idle ==
    [pc |-> "idle", op |-> "none", id |-> None, sub |-> FALSE, flag |-> FALSE,
     client |-> Counts(0, 0, 0), now |-> 0, found |-> FALSE, usage |-> NoDoc,
     daily |-> 0, monthly |-> 0, total |-> 0,
     res |-> "none", out |-> Counts(0, 0, 0), pre |-> <<>>, fault |-> FALSE,
     read |-> "none", reply |-> "none"]

Active(p) == procs[p].pc \notin {"idle", "done"}

\* a new request goes to the first process that serves none (which process
\* serves a request makes no difference); a sequential client sends its next
\* request once the last one is answered
CanStart(p) ==
    /\ ~Active(p)
    /\ \A q \in 1..(p - 1) : Active(q)
    /\ started < env.budget
    /\ env.clients = "sequential" => \A q \in Procs : ~Active(q)

\* is_subscribed of a request: a client of one tier always sends the same
Subs == IF env.tier = "any" THEN BOOLEAN ELSE {env.tier = "subscribed"}

Frame(p, r) ==
    /\ procs' = [procs EXCEPT ![p] = r]
    /\ hist' = IF env.log /\ r.pc = "done"
               THEN Append(hist, [op |-> r.op, res |-> r.res, now |-> r.now,
                                  pre |-> r.pre])
               ELSE hist

\* pre is the collection the request met; it is kept for sequential clients
Begin(op, id, sub, flag) ==
    [Idle EXCEPT !.op = op, !.id = id, !.sub = sub, !.flag = flag,
                 !.now = clock,
                 !.pre = IF env.clients = "sequential" THEN tryon_usage ELSE <<>>]

\* the request is answered: its locals are dropped.  The counts of the
\* answer and the time of the request are kept for sequential clients.
Finish(r, res, out) ==
    [r EXCEPT !.pc = "done", !.res = res,
              !.out = IF env.clients = "sequential" THEN out ELSE Counts(0, 0, 0),
              !.now = IF env.clients = "sequential" THEN r.now ELSE 0,
              !.found = FALSE, !.usage = NoDoc,
              !.daily = 0, !.monthly = 0, !.total = 0]

\* a daily rollover that needs a whole day without a reset in between
NewDaySkipsOne(usage, default, today) ==
    Get(usage, "last_reset_daily", default) + 1 < today

\* last_reset_daily.date() < today.date()
NewDay(usage, default, today) ==
    Get(usage, "last_reset_daily", default) < today

\* last_reset_monthly.date().month < now.date().month
NewMonth(usage, now) ==
    MonthOf(Get(usage, "last_reset_monthly", FirstOfMonth(now))) < MonthOf(now)

\* daily_limit = 40 if is_subscribed else 1
DailyLimit(sub) == IF sub THEN SubscribedDailyLimit ELSE FreeDailyLimit

\* a daily reset that moves the timestamp and keeps the count
ResetDailyKeepsCount(doc, today) ==
    [doc EXCEPT !.last_reset_daily = today]

\* {"$set": {"daily_count": 0, "last_reset_daily": today}}
ResetDaily(doc, today) ==
    [doc EXCEPT !.daily_count = 0, !.last_reset_daily = today]

\* {"$set": {"monthly_count": 0, "last_reset_monthly": first_of_month}}
ResetMonthly(doc, now) ==
    [doc EXCEPT !.monthly_count = 0, !.last_reset_monthly = FirstOfMonth(now)]

\* {"$inc": {"daily_count": 1, "monthly_count": 1, "total_count": 1}}
IncAll(doc) ==
    IncField(IncField(IncField(doc, "daily_count", 1), "monthly_count", 1),
             "total_count", 1)

\* the record a first use creates for a device
NewDeviceDoc(id, d, m, t, now) ==
    [NoDoc EXCEPT !.device_id = id, !.user_id = None,
                  !.daily_count = d, !.monthly_count = m, !.total_count = t,
                  !.last_reset_daily = now, !.last_reset_monthly = FirstOfMonth(now)]

-----------------------------------------------------------------------------
(* POST /virtual-tryon/device-usage : track_device_try_on_usage            *)

\* limit checks that let the monthly count reach the limit plus one
DuOutcomeOffByOne(sub, chk, daily, monthly) ==
    IF chk THEN "checked"
    ELSE IF monthly > MonthlyLimit THEN "MONTHLY_LIMIT_REACHED"
    ELSE IF ~sub /\ daily >= DailyLimit(sub) THEN "DAILY_LIMIT_REACHED"
    ELSE "allowed"

\* the limit checks of a request that found a record
DuOutcome(sub, chk, daily, monthly) ==
    IF chk THEN "checked"
    ELSE IF monthly >= MonthlyLimit THEN "MONTHLY_LIMIT_REACHED"
    ELSE IF ~sub /\ daily >= DailyLimit(sub) THEN "DAILY_LIMIT_REACHED"
    ELSE "allowed"

\* the frame once the reset writes are done: answer, or go on to increment
DuAfterResets(r) ==
    LET o == DuOutcome(r.sub, r.flag, r.daily, r.monthly)
    IN  IF o = "allowed"
        THEN [r EXCEPT !.pc = "du_inc"]
        ELSE Finish(r, o, Counts(r.daily, r.monthly, r.total))

\* usage = find_one({"device_id": device_id}) and the code up to the next await
DuStart(p, d, sub, chk) ==
    /\ CanStart(p)
    /\  LET u == FindOne(tryon_usage, "device_id", d)
            f == Found(tryon_usage, "device_id", d)
            b == [Begin("device_usage", d, sub, chk) EXCEPT !.found = f, !.usage = u]
            rd == NewDay(u, clock, clock)
            rm == NewMonth(u, clock)
            r == [b EXCEPT !.daily = IF rd THEN 0 ELSE Get(u, "daily_count", 0),
                           !.monthly = IF rm THEN 0 ELSE Get(u, "monthly_count", 0),
                           !.total = Get(u, "total_count", 0)]
        IN  Frame(p, IF ~f
                     THEN IF chk THEN Finish(b, "checked", Counts(0, 0, 0))
                          ELSE [b EXCEPT !.pc = "du_insert"]
                     ELSE IF rd THEN [r EXCEPT !.pc = "du_reset_daily"]
                     ELSE IF rm THEN [r EXCEPT !.pc = "du_reset_monthly"]
                     ELSE DuAfterResets(r))
    /\ started' = started + 1
    /\ UNCHANGED <<tryon_usage, clock, env, tryon_predictions, fashn>>

DuFind(p) ==
    \E d \in Devices, sub \in Subs, chk \in BOOLEAN : DuStart(p, d, sub, chk)

\* a consume request: check_only = false
DuConsume(p) ==
    \E d \in Devices, sub \in Subs : DuStart(p, d, sub, FALSE)

\* insert_one(new_usage) with counts of 1
DuInsert(p) ==
    LET r == procs[p]
    IN  /\ r.pc = "du_insert"
        /\ tryon_usage' = InsertOne(tryon_usage, NewDeviceDoc(r.id, 1, 1, 1, r.now))
        /\ Frame(p, Finish(r, "allowed", Counts(1, 1, 1)))
        /\ UNCHANGED <<clock, started, env, tryon_predictions, fashn>>

DuResetDaily(p) ==
    LET r == procs[p]
    IN  /\ r.pc = "du_reset_daily"
        /\ tryon_usage' =
            UpdateOne(tryon_usage, "device_id", r.id,
                      ResetDaily(FindOne(tryon_usage, "device_id", r.id), r.now))
        /\ Frame(p, IF NewMonth(r.usage, r.now)
                    THEN [r EXCEPT !.pc = "du_reset_monthly"]
                    ELSE DuAfterResets(r))
        /\ UNCHANGED <<clock, started, env, tryon_predictions, fashn>>

DuResetMonthly(p) ==
    LET r == procs[p]
    IN  /\ r.pc = "du_reset_monthly"
        /\ tryon_usage' =
            UpdateOne(tryon_usage, "device_id", r.id,
                      ResetMonthly(FindOne(tryon_usage, "device_id", r.id), r.now))
        /\ Frame(p, DuAfterResets(r))
        /\ UNCHANGED <<clock, started, env, tryon_predictions, fashn>>

\* update_one({"device_id": device_id}, {"$set": ..., "$inc": increment_fields})
DuInc(p) ==
    LET r == procs[p]
    IN  /\ r.pc = "du_inc"
        /\ tryon_usage' =
            UpdateOne(tryon_usage, "device_id", r.id,
                      IncAll(FindOne(tryon_usage, "device_id", r.id)))
        /\ Frame(p, [r EXCEPT !.pc = "du_reread"])
        /\ UNCHANGED <<clock, started, env, tryon_predictions, fashn>>

\* updated_usage = find_one(...): the answer carries the stored counts
DuReread(p) ==
    LET r == procs[p]
        u == FindOne(tryon_usage, "device_id", r.id)
    IN  /\ r.pc = "du_reread"
        /\ Frame(p, Finish(r, "allowed",
                           Counts(Get(u, "daily_count", r.daily + 1),
                                  Get(u, "monthly_count", r.monthly + 1),
                                  Get(u, "total_count", r.total + 1))))
        /\ UNCHANGED <<tryon_usage, clock, started, env, tryon_predictions, fashn>>

-----------------------------------------------------------------------------
(* POST /virtual-tryon/test : test_virtual_try_on, with the limit check of  *)
(* check_device_tryon_limits and the usage tracking the handler does itself *)

\* usage.get("last_reset_daily", usage.get("last_reset", now))
LastResetDaily(usage, now) ==
    Get(usage, "last_reset_daily", Get(usage, "last_reset", now))

\* check_device_tryon_limits: the daily limit is looked at first
LimitsOutcome(sub, daily, monthly) ==
    IF ~sub /\ daily >= DailyLimit(sub) THEN "DAILY_LIMIT_REACHED"
    ELSE IF monthly >= MonthlyLimit THEN "MONTHLY_LIMIT_REACHED"
    ELSE "allowed"

\* if not has_remaining: raise HTTPException(403, ...), else call the service
TestAfterLimits(r) ==
    LET o == LimitsOutcome(r.sub, r.daily, r.monthly)
    IN  IF o = "allowed"
        THEN [r EXCEPT !.pc = "t_fashn"]
        ELSE Finish(r, IF o = "MONTHLY_LIMIT_REACHED" THEN "http403_monthly"
                       ELSE "http403_daily",
                    Counts(r.daily, r.monthly, r.total))

\* the request arrives; with a device id and tracking not skipped,
\* check_device_tryon_limits reads the record
TestBegin(p, d, sub, skip) ==
    /\ CanStart(p)
    /\  LET u == FindOne(tryon_usage, "device_id", d)
            f == Found(tryon_usage, "device_id", d)
            b == Begin("test", d, sub, skip)
            rd == LastResetDaily(u, clock) < clock
            rm == NewMonth(u, clock)
            r == [b EXCEPT !.found = f, !.usage = u,
                           !.daily = IF rd THEN 0 ELSE Get(u, "daily_count", 0),
                           !.monthly = IF rm THEN 0 ELSE Get(u, "monthly_count", 0)]
        IN  Frame(p, IF d = None \/ skip THEN [b EXCEPT !.pc = "t_fashn"]
                     ELSE IF ~f THEN [b EXCEPT !.pc = "t_fashn"]
                     ELSE IF rd THEN [r EXCEPT !.pc = "t_reset_daily"]
                     ELSE IF rm THEN [r EXCEPT !.pc = "t_reset_monthly"]
                     ELSE TestAfterLimits(r))
    /\ started' = started + 1
    /\ UNCHANGED <<tryon_usage, clock, env, tryon_predictions, fashn>>

TestStart(p) ==
    \E d \in Devices \cup {None}, sub \in Subs, skip \in BOOLEAN :
        TestBegin(p, d, sub, skip)

\* a request that names its device and does not skip the tracking
TestTracked(p) ==
    \E d \in Devices, sub \in Subs : TestBegin(p, d, sub, FALSE)

TestResetDaily(p) ==
    LET r == procs[p]
    IN  /\ r.pc = "t_reset_daily"
        /\ tryon_usage' =
            UpdateOne(tryon_usage, "device_id", r.id,
                      ResetDaily(FindOne(tryon_usage, "device_id", r.id), r.now))
        /\ Frame(p, IF NewMonth(r.usage, r.now)
                    THEN [r EXCEPT !.pc = "t_reset_monthly"]
                    ELSE TestAfterLimits(r))
        /\ UNCHANGED <<clock, started, env, tryon_predictions, fashn>>

TestResetMonthly(p) ==
    LET r == procs[p]
    IN  /\ r.pc = "t_reset_monthly"
        /\ tryon_usage' =
            UpdateOne(tryon_usage, "device_id", r.id,
                      ResetMonthly(FindOne(tryon_usage, "device_id", r.id), r.now))
        /\ Frame(p, TestAfterLimits(r))
        /\ UNCHANGED <<clock, started, env, tryon_predictions, fashn>>

\* the try-on service answers: a prediction id, an error status or exception,
\* or a reply without an id.  Only a prediction id leads on to the tracking.
\* a handler that counts the try-on before the service has answered
TestFashnCountsFirst(p) ==
    LET r == procs[p]
    IN  /\ r.pc = "t_fashn"
        /\ tryon_usage' =
            UpdateOne(tryon_usage, "device_id", r.id,
                      IncAll(FindOne(tryon_usage, "device_id", r.id)))
        /\ \E reply \in {"id", "error", "no_id"} :
            Frame(p, Finish(r, IF reply # "id" THEN "http500" ELSE "pending",
                            Counts(0, 0, 0)))
        /\ UNCHANGED <<clock, started, env, tryon_predictions, fashn>>

TestFashn(p) ==
    LET r == procs[p]
    IN  /\ r.pc = "t_fashn"
        /\ \E reply \in {"id", "error", "no_id"} :
            Frame(p, IF reply # "id"
                     THEN Finish(r, "http500", Counts(0, 0, 0))
                     ELSE IF r.id # None /\ ~r.flag
                     THEN [r EXCEPT !.pc = "t_track_find"]
                     ELSE Finish(r, "pending", Counts(0, 0, 0)))
        /\ UNCHANGED <<tryon_usage, clock, started, env, tryon_predictions, fashn>>

\* usage = find_one(...) of the tracking, with a now of its own
TestTrackFind(p) ==
    LET r == procs[p]
        u == FindOne(tryon_usage, "device_id", r.id)
        f == Found(tryon_usage, "device_id", r.id)
    IN  /\ r.pc = "t_track_find"
        /\ Frame(p, [r EXCEPT !.found = f, !.usage = u, !.now = clock,
                              !.pc = IF f THEN "t_track_update" ELSE "t_track_insert"])
        /\ UNCHANGED <<tryon_usage, clock, started, env, tryon_predictions, fashn>>

TestTrackInsert(p) ==
    LET r == procs[p]
    IN  /\ r.pc = "t_track_insert"
        /\ tryon_usage' = InsertOne(tryon_usage, NewDeviceDoc(r.id, 1, 1, 1, r.now))
        /\ Frame(p, Finish(r, "pending", Counts(1, 1, 1)))
        /\ UNCHANGED <<clock, started, env, tryon_predictions, fashn>>

\* the one update_one of the tracking: a rolled-over window is set to 1 with
\* its reset timestamp, another is incremented; total_count is incremented
TrackUpdate(doc, usage, now) ==
    LET d1 == IF LastResetDaily(usage, now) < now
              THEN [doc EXCEPT !.daily_count = 1, !.last_reset_daily = now]
              ELSE IncField(doc, "daily_count", 1)
        d2 == IF NewMonth(usage, now)
              THEN [d1 EXCEPT !.monthly_count = 1,
                              !.last_reset_monthly = FirstOfMonth(now)]
              ELSE IncField(d1, "monthly_count", 1)
    IN  IncField(d2, "total_count", 1)

TestTrackUpdate(p) ==
    LET r == procs[p]
    IN  /\ r.pc = "t_track_update"
        /\ tryon_usage' =
            UpdateOne(tryon_usage, "device_id", r.id,
                      TrackUpdate(FindOne(tryon_usage, "device_id", r.id), r.usage, r.now))
        /\ Frame(p, [r EXCEPT !.pc = "t_track_reread"])
        /\ UNCHANGED <<clock, started, env, tryon_predictions, fashn>>

\* a tracking that never finds the count to clamp
NeedsClampNever(updated) == FALSE

\* if updated_usage.get('monthly_count', 0) >= 40
NeedsClamp(updated) == Get(updated, "monthly_count", 0) >= MonthlyLimit

TestTrackReread(p) ==
    LET r == procs[p]
        u == FindOne(tryon_usage, "device_id", r.id)
        out == Counts(Get(u, "daily_count", 0), Get(u, "monthly_count", 0),
                      Get(u, "total_count", 0))
    IN  /\ r.pc = "t_track_reread"
        /\ Frame(p, IF Found(tryon_usage, "device_id", r.id) /\ NeedsClamp(u)
                    THEN [r EXCEPT !.pc = "t_clamp"]
                    ELSE Finish(r, "pending", out))
        /\ UNCHANGED <<tryon_usage, clock, started, env, tryon_predictions, fashn>>

\* {"$set": {"monthly_count": 40}}
TestClamp(p) ==
    LET r == procs[p]
    IN  /\ r.pc = "t_clamp"
        /\ tryon_usage' =
            UpdateOne(tryon_usage, "device_id", r.id,
                      [FindOne(tryon_usage, "device_id", r.id) EXCEPT !.monthly_count = MonthlyLimit])
        /\ Frame(p, Finish(r, "pending", Counts(0, 0, 0)))
        /\ UNCHANGED <<clock, started, env, tryon_predictions, fashn>>

-----------------------------------------------------------------------------
(* POST /virtual-tryon/sync-stats : sync_device_stats                       *)

\* the counts a client reports
ClientCounts ==
    {Counts(0, 0, 0), Counts(1, 2, 3),
     Counts(MonthlyLimit, MonthlyLimit, MonthlyLimit + 1)}

SyncStart(p) ==
    /\ CanStart(p)
    /\ \E d \in Devices, c \in ClientCounts :
        LET f == Found(tryon_usage, "device_id", d)
        IN  Frame(p, [Begin("sync_stats", d, FALSE, FALSE) EXCEPT
                        !.client = c,
                        !.pc = IF f THEN "sy_update" ELSE "sy_insert"])
    /\ started' = started + 1
    /\ UNCHANGED <<tryon_usage, clock, env, tryon_predictions, fashn>>

\* no record yet: one is created with the client's counts
SyncInsert(p) ==
    LET r == procs[p]
        c == r.client
    IN  /\ r.pc = "sy_insert"
        /\ tryon_usage' = InsertOne(tryon_usage,
                NewDeviceDoc(r.id, c.daily_count, c.monthly_count, c.total_count, r.now))
        /\ Frame(p, Finish(r, "created", c))
        /\ UNCHANGED <<clock, started, env, tryon_predictions, fashn>>

\* {"$set": {"daily_count": ..., "monthly_count": ..., "total_count": ...}}
SyncSet(doc, c) ==
    [doc EXCEPT !.daily_count = c.daily_count,
                !.monthly_count = c.monthly_count,
                !.total_count = c.total_count]

SyncUpdate(p) ==
    LET r == procs[p]
    IN  /\ r.pc = "sy_update"
        /\ tryon_usage' =
            UpdateOne(tryon_usage, "device_id", r.id,
                      SyncSet(FindOne(tryon_usage, "device_id", r.id), r.client))
        /\ Frame(p, Finish(r, "updated", r.client))
        /\ UNCHANGED <<clock, started, env, tryon_predictions, fashn>>

-----------------------------------------------------------------------------
(* track_tryon_usage(user_id, is_subscribed) of routes/virtual_tryon.py     *)

\* the record a first use creates for a user
NewUserDoc(id, now) ==
    [NoDoc EXCEPT !.user_id = id,
                  !.daily_count = 1, !.monthly_count = 1, !.total_count = 1,
                  !.last_reset_daily = now, !.last_reset_monthly = FirstOfMonth(now)]

\* limit checks that let the monthly count reach the limit plus one
TrackOutcomeOffByOne(sub, daily, monthly) ==
    IF monthly > MonthlyLimit THEN "MONTHLY_LIMIT_REACHED"
    ELSE IF ~sub /\ daily >= FreeDailyLimit THEN "DAILY_LIMIT_REACHED"
    ELSE "allowed"

\* the monthly limit is looked at first; a denied call returns the record
\* it read ("Don't increment")
TrackOutcome(sub, daily, monthly) ==
    IF monthly >= MonthlyLimit THEN "MONTHLY_LIMIT_REACHED"
    ELSE IF ~sub /\ daily >= FreeDailyLimit THEN "DAILY_LIMIT_REACHED"
    ELSE "allowed"

TtAfterResets(r) ==
    LET o == TrackOutcome(r.sub, r.daily, r.monthly)
    IN  IF o = "allowed"
        THEN [r EXCEPT !.pc = "tt_inc"]
        ELSE Finish(r, o, Counts(r.daily, r.monthly, r.total))

TtStart(p) ==
    /\ CanStart(p)
    /\ \E u \in Users, sub \in Subs :
        LET usage == FindOne(tryon_usage, "user_id", u)
            f == Found(tryon_usage, "user_id", u)
            b == [Begin("track_tryon_usage", u, sub, FALSE) EXCEPT
                    !.found = f, !.usage = usage]
            rd == NewDay(usage, clock, clock)
            rm == NewMonth(usage, clock)
            r == [b EXCEPT !.daily = IF rd THEN 0 ELSE Get(usage, "daily_count", 0),
                           !.monthly = IF rm THEN 0 ELSE Get(usage, "monthly_count", 0),
                           !.total = Get(usage, "total_count", 0)]
        IN  Frame(p, IF ~f THEN [b EXCEPT !.pc = "tt_insert"]
                     ELSE IF rd \/ rm THEN [r EXCEPT !.pc = "tt_reset"]
                     ELSE TtAfterResets(r))
    /\ started' = started + 1
    /\ UNCHANGED <<tryon_usage, clock, env, tryon_predictions, fashn>>

TtInsert(p) ==
    LET r == procs[p]
    IN  /\ r.pc = "tt_insert"
        /\ tryon_usage' = InsertOne(tryon_usage, NewUserDoc(r.id, r.now))
        /\ Frame(p, Finish(r, "allowed", Counts(1, 1, 1)))
        /\ UNCHANGED <<clock, started, env, tryon_predictions, fashn>>

\* if needs_update: one update_one with the reset fields of both windows
TtResetFields(doc, usage, now) ==
    LET d1 == IF NewDay(usage, now, now) THEN ResetDaily(doc, now) ELSE doc
    IN  IF NewMonth(usage, now) THEN ResetMonthly(d1, now) ELSE d1

TtReset(p) ==
    LET r == procs[p]
    IN  /\ r.pc = "tt_reset"
        /\ tryon_usage' =
            UpdateOne(tryon_usage, "user_id", r.id,
                      TtResetFields(FindOne(tryon_usage, "user_id", r.id), r.usage, r.now))
        /\ Frame(p, TtAfterResets(r))
        /\ UNCHANGED <<clock, started, env, tryon_predictions, fashn>>

TtInc(p) ==
    LET r == procs[p]
    IN  /\ r.pc = "tt_inc"
        /\ tryon_usage' =
            UpdateOne(tryon_usage, "user_id", r.id,
                      IncAll(FindOne(tryon_usage, "user_id", r.id)))
        /\ Frame(p, [r EXCEPT !.pc = "tt_reread"])
        /\ UNCHANGED <<clock, started, env, tryon_predictions, fashn>>

TtReread(p) ==
    LET r == procs[p]
        u == FindOne(tryon_usage, "user_id", r.id)
    IN  /\ r.pc = "tt_reread"
        /\ Frame(p, Finish(r, "allowed",
                           Counts(Get(u, "daily_count", 0), Get(u, "monthly_count", 0),
                                  Get(u, "total_count", 0))))
        /\ UNCHANGED <<tryon_usage, clock, started, env, tryon_predictions, fashn>>

-----------------------------------------------------------------------------
(* check_tryon_limit(user_id) of routes/virtual_tryon.py; sub is isPremium  *)
(* of the users collection                                                  *)

\* the daily limit is looked at first
CheckLimitOutcome(premium, daily, monthly) ==
    IF ~premium /\ daily >= DailyLimit(premium) THEN "DAILY_LIMIT_REACHED"
    ELSE IF monthly >= MonthlyLimit THEN "MONTHLY_LIMIT_REACHED"
    ELSE "has_remaining"

CtAfterResets(r) ==
    Finish(r, CheckLimitOutcome(r.sub, r.daily, r.monthly),
           Counts(r.daily, r.monthly, r.total))

CtStart(p) ==
    /\ CanStart(p)
    /\ \E u \in Users, premium \in Subs :
        LET usage == FindOne(tryon_usage, "user_id", u)
            f == Found(tryon_usage, "user_id", u)
            b == [Begin("check_tryon_limit", u, premium, FALSE) EXCEPT
                    !.found = f, !.usage = usage]
            rd == LastResetDaily(usage, clock) < clock
            rm == NewMonth(usage, clock)
            r == [b EXCEPT !.daily = IF rd THEN 0 ELSE Get(usage, "daily_count", 0),
                           !.monthly = IF rm THEN 0 ELSE Get(usage, "monthly_count", 0)]
        IN  Frame(p, IF ~f THEN Finish(b, "has_remaining", Counts(0, 0, 0))
                     ELSE IF rd THEN [r EXCEPT !.pc = "ct_reset_daily"]
                     ELSE IF rm THEN [r EXCEPT !.pc = "ct_reset_monthly"]
                     ELSE CtAfterResets(r))
    /\ started' = started + 1
    /\ UNCHANGED <<tryon_usage, clock, env, tryon_predictions, fashn>>

CtResetDaily(p) ==
    LET r == procs[p]
    IN  /\ r.pc = "ct_reset_daily"
        /\ tryon_usage' =
            UpdateOne(tryon_usage, "user_id", r.id,
                      ResetDaily(FindOne(tryon_usage, "user_id", r.id), r.now))
        /\ Frame(p, IF NewMonth(r.usage, r.now)
                    THEN [r EXCEPT !.pc = "ct_reset_monthly"]
                    ELSE CtAfterResets(r))
        /\ UNCHANGED <<clock, started, env, tryon_predictions, fashn>>

CtResetMonthly(p) ==
    LET r == procs[p]
    IN  /\ r.pc = "ct_reset_monthly"
        /\ tryon_usage' =
            UpdateOne(tryon_usage, "user_id", r.id,
                      ResetMonthly(FindOne(tryon_usage, "user_id", r.id), r.now))
        /\ Frame(p, CtAfterResets(r))
        /\ UNCHANGED <<clock, started, env, tryon_predictions, fashn>>

-----------------------------------------------------------------------------
(* POST /virtual-tryon/try-async : start_virtual_try_on; sub is the active  *)
(* subscription found in the subscriptions collection                       *)

\* the gate: the daily count as stored (no day rollover), the daily limit first
GateOutcome(sub, daily, monthly) ==
    IF ~sub /\ daily >= FreeDailyLimit THEN "http403_daily"
    ELSE IF monthly >= MonthlyLimit THEN "http403_monthly"
    ELSE "allowed"

TaAfterReset(r) ==
    LET o == GateOutcome(r.sub, r.daily, r.monthly)
    IN  IF o = "allowed"
        THEN [r EXCEPT !.pc = "ta_fashn"]
        ELSE Finish(r, o, Counts(r.daily, r.monthly, r.total))

TaStart(p) ==
    /\ CanStart(p)
    /\ \E u \in Users, sub \in Subs :
        LET usage == FindOne(tryon_usage, "user_id", u)
            f == Found(tryon_usage, "user_id", u)
            b == [Begin("try_async", u, sub, FALSE) EXCEPT
                    !.found = f, !.usage = usage]
            rm == NewMonth(usage, clock)
            r == [b EXCEPT !.daily = Get(usage, "daily_count", 0),
                           !.monthly = IF rm THEN 0 ELSE Get(usage, "monthly_count", 0)]
        IN  Frame(p, IF ~f THEN [b EXCEPT !.pc = "ta_fashn"]
                     ELSE IF rm THEN [r EXCEPT !.pc = "ta_reset_monthly"]
                     ELSE TaAfterReset(r))
    /\ started' = started + 1
    /\ UNCHANGED <<tryon_usage, clock, env, tryon_predictions, fashn>>

TaResetMonthly(p) ==
    LET r == procs[p]
    IN  /\ r.pc = "ta_reset_monthly"
        /\ tryon_usage' =
            UpdateOne(tryon_usage, "user_id", r.id,
                      ResetMonthly(FindOne(tryon_usage, "user_id", r.id), r.now))
        /\ Frame(p, TaAfterReset(r))
        /\ UNCHANGED <<clock, started, env, tryon_predictions, fashn>>

\* the service is called; an error reply ends in 500, and so does a
\* prediction id: "if device_id:" names a variable the function never
\* binds, the NameError is caught by "except Exception" and answered 500
\* before any usage is tracked
TaFashn(p) ==
    LET r == procs[p]
    IN  /\ r.pc = "ta_fashn"
        /\ Frame(p, Finish(r, "http500", Counts(0, 0, 0)))
        /\ UNCHANGED <<tryon_usage, clock, started, env, tryon_predictions, fashn>>

-----------------------------------------------------------------------------
(* GET /virtual-tryon/usage : get_try_on_usage                              *)

UsStart(p) ==
    /\ CanStart(p)
    /\ \E u \in Users :
        LET usage == FindOne(tryon_usage, "user_id", u)
            f == Found(tryon_usage, "user_id", u)
            b == [Begin("usage", u, FALSE, FALSE) EXCEPT !.found = f, !.usage = usage]
            rd == LastResetDaily(usage, clock) < clock
            rm == NewMonth(usage, clock)
            r == [b EXCEPT !.daily = Get(usage, "daily_count", 0),
                           !.monthly = Get(usage, "monthly_count", 0),
                           !.total = Get(usage, "total_count", 0)]
        IN  Frame(p, IF ~f THEN Finish(b, "checked", Counts(0, 0, 0))
                     ELSE IF rd THEN [r EXCEPT !.pc = "us_reset_daily"]
                     ELSE IF rm THEN [r EXCEPT !.pc = "us_reset_monthly"]
                     ELSE Finish(r, "checked", Counts(r.daily, r.monthly, r.total)))
    /\ started' = started + 1
    /\ UNCHANGED <<tryon_usage, clock, env, tryon_predictions, fashn>>

\* a new day: the reset is written and the handler returns at once, with
\* the monthly count as stored
UsResetDaily(p) ==
    LET r == procs[p]
    IN  /\ r.pc = "us_reset_daily"
        /\ tryon_usage' =
            UpdateOne(tryon_usage, "user_id", r.id,
                      ResetDaily(FindOne(tryon_usage, "user_id", r.id), r.now))
        /\ Frame(p, Finish(r, "checked", Counts(0, r.monthly, r.total)))
        /\ UNCHANGED <<clock, started, env, tryon_predictions, fashn>>

UsResetMonthly(p) ==
    LET r == procs[p]
    IN  /\ r.pc = "us_reset_monthly"
        /\ tryon_usage' =
            UpdateOne(tryon_usage, "user_id", r.id,
                      ResetMonthly(FindOne(tryon_usage, "user_id", r.id), r.now))
        /\ Frame(p, Finish(r, "checked", Counts(r.daily, 0, r.total)))
        /\ UNCHANGED <<clock, started, env, tryon_predictions, fashn>>

-----------------------------------------------------------------------------
(* The read-only checks: POST and GET /usage-check/{device_id},             *)
(* GET /check-only/{device_id}                                              *)

\* the counts a check answers: 0 for a window that rolled over
CheckedCounts(usage, lastDaily, now) ==
    Counts(IF lastDaily < now THEN 0 ELSE Get(usage, "daily_count", 0),
           IF NewMonth(usage, now) THEN 0 ELSE Get(usage, "monthly_count", 0),
           Get(usage, "total_count", 0))

\* POST /usage-check/{device_id}
UcPost(p) ==
    /\ CanStart(p)
    /\ \E d \in Devices :
        LET usage == FindOne(tryon_usage, "device_id", d)
            f == Found(tryon_usage, "device_id", d)
            b == Begin("usage_check_post", d, FALSE, FALSE)
        IN  Frame(p, IF ~f THEN Finish(b, "checked", Counts(0, 0, 0))
                     ELSE Finish(b, "checked",
                                 CheckedCounts(usage, LastResetDaily(usage, clock), clock)))
    /\ started' = started + 1
    /\ UNCHANGED <<tryon_usage, clock, env, tryon_predictions, fashn>>

\* GET /check-only/{device_id}
CoGet(p) ==
    /\ CanStart(p)
    /\ \E d \in Devices :
        LET usage == FindOne(tryon_usage, "device_id", d)
            f == Found(tryon_usage, "device_id", d)
            b == Begin("check_only", d, FALSE, FALSE)
        IN  Frame(p, IF ~f THEN Finish(b, "not_found", Counts(0, 0, 0))
                     ELSE Finish(b, "checked",
                                 CheckedCounts(usage,
                                     Get(usage, "last_reset_daily", clock), clock)))
    /\ started' = started + 1
    /\ UNCHANGED <<tryon_usage, clock, env, tryon_predictions, fashn>>

\* GET /usage-check/{device_id}?force_db=...: the resets are written only
\* when force_db is true
UcGet(p) ==
    /\ CanStart(p)
    /\ \E d \in Devices, force \in BOOLEAN :
        LET usage == FindOne(tryon_usage, "device_id", d)
            f == Found(tryon_usage, "device_id", d)
            b == [Begin("usage_check_get", d, FALSE, force) EXCEPT
                    !.found = f, !.usage = usage]
            rd == NewDay(usage, clock, clock)
            rm == NewMonth(usage, clock)
            c == CheckedCounts(usage, Get(usage, "last_reset_daily", clock), clock)
            r == [b EXCEPT !.daily = c.daily_count, !.monthly = c.monthly_count,
                           !.total = c.total_count]
        IN  Frame(p, IF ~f THEN Finish(b, "checked", Counts(0, 0, 0))
                     ELSE IF force /\ rd THEN [r EXCEPT !.pc = "uc_reset_daily"]
                     ELSE IF force /\ rm THEN [r EXCEPT !.pc = "uc_reset_monthly"]
                     ELSE Finish(r, "checked", c))
    /\ started' = started + 1
    /\ UNCHANGED <<tryon_usage, clock, env, tryon_predictions, fashn>>

UcResetDaily(p) ==
    LET r == procs[p]
    IN  /\ r.pc = "uc_reset_daily"
        /\ tryon_usage' =
            UpdateOne(tryon_usage, "device_id", r.id,
                      ResetDaily(FindOne(tryon_usage, "device_id", r.id), r.now))
        /\ Frame(p, IF NewMonth(r.usage, r.now)
                    THEN [r EXCEPT !.pc = "uc_reset_monthly"]
                    ELSE Finish(r, "checked", Counts(r.daily, r.monthly, r.total)))
        /\ UNCHANGED <<clock, started, env, tryon_predictions, fashn>>

UcResetMonthly(p) ==
    LET r == procs[p]
    IN  /\ r.pc = "uc_reset_monthly"
        /\ tryon_usage' =
            UpdateOne(tryon_usage, "device_id", r.id,
                      ResetMonthly(FindOne(tryon_usage, "device_id", r.id), r.now))
        /\ Frame(p, Finish(r, "checked", Counts(r.daily, r.monthly, r.total)))
        /\ UNCHANGED <<clock, started, env, tryon_predictions, fashn>>

-----------------------------------------------------------------------------
(* track_tryon_usage(user_id, db) of database.py: the record keeps           *)
(* daily_count, total_count and last_reset, and no monthly fields            *)

\* the record a first use creates
NewDbDoc(id, now) ==
    [NoDoc EXCEPT !.user_id = id, !.daily_count = 1, !.total_count = 1,
                  !.last_reset = now]

\* usage_record = find_one({"user_id": user_id})
DbTrackStart(p) ==
    /\ CanStart(p)
    /\ \E u \in Users :
        LET usage == FindOne(tryon_usage, "user_id", u)
            f == Found(tryon_usage, "user_id", u)
            b == [Begin("db_track", u, FALSE, FALSE) EXCEPT !.found = f, !.usage = usage]
        IN  Frame(p, [b EXCEPT !.pc = IF f THEN "db_update" ELSE "db_insert"])
    /\ started' = started + 1
    /\ UNCHANGED <<tryon_usage, clock, env, tryon_predictions, fashn>>

\* the update_one of a call that found a record: daily_count is set to 1 on
\* a new day and to the count read plus 1 otherwise; total_count is
\* incremented in the same operation
DbUpdate(doc, usage, now) ==
    LET d1 == IF Get(usage, "last_reset", now) < now
              THEN [doc EXCEPT !.daily_count = 1, !.last_reset = now]
              ELSE [doc EXCEPT !.daily_count = Get(usage, "daily_count", 0) + 1]
    IN  IncField(d1, "total_count", 1)

DbTrackUpdate(p) ==
    LET r == procs[p]
        daily == IF Get(r.usage, "last_reset", r.now) < r.now
                 THEN 1 ELSE Get(r.usage, "daily_count", 0) + 1
    IN  /\ r.pc = "db_update"
        /\ tryon_usage' =
            UpdateOne(tryon_usage, "user_id", r.id,
                      DbUpdate(FindOne(tryon_usage, "user_id", r.id), r.usage, r.now))
        /\ Frame(p, Finish(r, "tracked",
                           Counts(daily, 0, Get(r.usage, "total_count", 0) + 1)))
        /\ UNCHANGED <<clock, started, env, tryon_predictions, fashn>>

DbTrackInsert(p) ==
    LET r == procs[p]
    IN  /\ r.pc = "db_insert"
        /\ tryon_usage' = InsertOne(tryon_usage, NewDbDoc(r.id, r.now))
        /\ Frame(p, Finish(r, "tracked", Counts(1, 0, 1)))
        /\ UNCHANGED <<clock, started, env, tryon_predictions, fashn>>

-----------------------------------------------------------------------------
(* POST /track-engagement : track_user_engagement (routes/notifications.py) *)

EngagementTypes == {"login", "tryon", "notification_open", "app_open"}

\* database.track_tryon_usage(user_id) called without db: db is None, the
\* function logs a warning and returns {daily_count: 0, total_count: 0}; the
\* collection is not read or written
DbTrackNoDb(coll, id) == coll

\* the request: for engagement_type 'tryon' it calls
\* track_tryon_usage(str(current_user["_id"])), then it updates the
\* user_engagement record and answers success.  flag is set for 'tryon'.
TrackEngagement(p) ==
    /\ CanStart(p)
    /\ \E u \in Users, type \in EngagementTypes :
        /\ tryon_usage' = IF type = "tryon" THEN DbTrackNoDb(tryon_usage, u)
                          ELSE tryon_usage
        /\ Frame(p, Finish(Begin("track_engagement", u, FALSE, type = "tryon"),
                           "success", Counts(0, 0, 0)))
    /\ started' = started + 1
    /\ UNCHANGED <<clock, env, tryon_predictions, fashn>>

-----------------------------------------------------------------------------
(* A request that is cancelled, or whose next database operation raises,     *)
(* ends between two database operations: what it has written stays written  *)

Interrupt(p) ==
    /\ Active(p)
    /\ Frame(p, Finish(procs[p], "interrupted", Counts(0, 0, 0)))
    /\ UNCHANGED <<tryon_usage, clock, started, env, tryon_predictions, fashn>>

-----------------------------------------------------------------------------
(* A failing usage store: an operation on the collection raises and has no  *)
(* effect.  fault marks the request that met the failure.                   *)

\* device-usage, the first find_one raises: except Exception -> 500
DuFindFails(p) ==
    /\ CanStart(p)
    /\ \E d \in Devices, sub \in Subs :
          Frame(p, Finish([Begin("device_usage", d, sub, FALSE)
                              EXCEPT !.fault = TRUE],
                          "http500", Counts(0, 0, 0)))
    /\ started' = started + 1
    /\ UNCHANGED <<tryon_usage, clock, env, tryon_predictions, fashn>>

\* device-usage, a later operation raises (insert_one, a reset, the $inc,
\* the find_one after it): except Exception -> 500
DuStepFails(p) ==
    /\ procs[p].op = "device_usage"
    /\ Active(p)
    /\ Frame(p, Finish([procs[p] EXCEPT !.fault = TRUE],
                       "http500", Counts(0, 0, 0)))
    /\ UNCHANGED <<tryon_usage, clock, started, env, tryon_predictions, fashn>>

\* POST /test, the find_one of check_device_tryon_limits raises: the check
\* logs the error and returns (True, 40, 40, 0, 0, None), the request goes on
TestCheckFails(p) ==
    /\ CanStart(p)
    /\ \E d \in Devices, sub \in Subs :
          Frame(p, [Begin("test", d, sub, FALSE)
                       EXCEPT !.fault = TRUE, !.pc = "t_fashn"])
    /\ started' = started + 1
    /\ UNCHANGED <<tryon_usage, clock, env, tryon_predictions, fashn>>

\* POST /test, a reset write of check_device_tryon_limits raises: same except
TestCheckStepFails(p) ==
    /\ procs[p].pc \in {"t_reset_daily", "t_reset_monthly"}
    /\ Frame(p, [procs[p] EXCEPT !.fault = TRUE, !.pc = "t_fashn",
                                 !.daily = 0, !.monthly = 0])
    /\ UNCHANGED <<tryon_usage, clock, started, env, tryon_predictions, fashn>>

\* POST /test, an operation of the tracking raises after the try-on service
\* took the request: the error is logged and the request is answered
TestTrackFails(p) ==
    /\ procs[p].pc \in {"t_track_find", "t_track_insert", "t_track_update",
                        "t_track_reread", "t_clamp"}
    /\ Frame(p, Finish([procs[p] EXCEPT !.fault = TRUE],
                       "pending", Counts(0, 0, 0)))
    /\ UNCHANGED <<tryon_usage, clock, started, env, tryon_predictions, fashn>>

-----------------------------------------------------------------------------
(* GET /virtual-tryon/status/{prediction_id} : check_try_on_status          *)

\* the ids a status request may carry: pr1 is a prediction of user u1, pr2
\* one of another user, pr0 is not stored
PredictionIds == {"pr0", "pr1", "pr2"}

\* the document start_virtual_try_on stores for a prediction
NewPrediction(id, user) ==
    [id |-> id, user_id |-> user, status |-> "pending",
     result_url |-> "none", error |-> "none"]

NoPrediction == NewPrediction("none", "none")

Terminal(status) == status \in {"completed", "failed"}

HasPrediction(coll, id) == \E i \in 1..Len(coll) : coll[i].id = id

\* predictions_collection.find_one({"id": prediction_id})
FindPrediction(coll, id) ==
    IF HasPrediction(coll, id)
    THEN coll[CHOOSE i \in 1..Len(coll) :
                 /\ coll[i].id = id
                 /\ \A j \in 1..(i - 1) : coll[j].id # id]
    ELSE NoPrediction

\* the try-on service ends the processing of prediction pr1
FashnAdvance ==
    /\ fashn = "processing"
    /\ fashn' \in {"completed", "failed"}
    /\ UNCHANGED <<tryon_usage, clock, procs, started, env, hist, tryon_predictions>>

\* find_one, 404 for an unknown id, 403 for the prediction of another user;
\* a stored status completed or failed is answered from the database
StStart(p) ==
    /\ CanStart(p)
    /\ \E id \in PredictionIds, u \in Users :
        LET prediction == FindPrediction(tryon_predictions, id)
            b == [Begin("status", id, FALSE, FALSE) EXCEPT !.read = prediction.status]
        IN  Frame(p, IF ~HasPrediction(tryon_predictions, id)
                     THEN Finish(b, "http404", Counts(0, 0, 0))
                     ELSE IF prediction.user_id # u
                     THEN Finish(b, "http403", Counts(0, 0, 0))
                     ELSE IF Terminal(prediction.status)
                     THEN Finish(b, prediction.status, Counts(0, 0, 0))
                     ELSE [b EXCEPT !.pc = "st_fashn"])
    /\ started' = started + 1
    /\ UNCHANGED <<tryon_usage, clock, env, tryon_predictions, fashn>>

\* requests.get(".../v1/status/{prediction_id}"): the service answers with
\* the status it holds; a reply that is not 200, or no reply, answers the
\* request with the status read from the database
StFashn(p) ==
    LET r == procs[p]
    IN  /\ r.pc = "st_fashn"
        /\ \E reply \in {fashn, "http_error"} :
            Frame(p, IF reply = "http_error"
                     THEN Finish(r, r.read, Counts(0, 0, 0))
                     ELSE [r EXCEPT !.pc = "st_update", !.reply = reply])
        /\ UNCHANGED <<tryon_usage, clock, started, env, tryon_predictions, fashn>>

\* the $set of update_data: status, result_url for a completed prediction
\* with an output, error for a failed one with an error
SetStatus(prediction, status) ==
    [prediction EXCEPT !.status = status,
                       !.result_url = IF status = "completed" THEN "url" ELSE @,
                       !.error = IF status = "failed" THEN "error" ELSE @]

\* predictions_collection.update_one({"id": prediction_id}, {"$set": ...})
StUpdate(p) ==
    LET r == procs[p]
    IN  /\ r.pc = "st_update"
        /\ tryon_predictions' =
            [i \in 1..Len(tryon_predictions) |->
                IF tryon_predictions[i].id = r.id
                   /\ \A j \in 1..(i - 1) : tryon_predictions[j].id # r.id
                THEN SetStatus(tryon_predictions[i], r.reply)
                ELSE tryon_predictions[i]]
        /\ Frame(p, Finish(r, r.reply, Counts(0, 0, 0)))
        /\ UNCHANGED <<tryon_usage, clock, started, env, fashn>>

-----------------------------------------------------------------------------
(* The clock: datetime.utcnow() moves on by a day                           *)

Tick ==
    /\ clock < env.lastDate
    /\ clock' = clock + 1
    /\ UNCHANGED <<tryon_usage, procs, started, env, hist, tryon_predictions, fashn>>

-----------------------------------------------------------------------------

(* Actions of the processes, by endpoint *)

DuSteps(p) ==
    \/ DuInsert(p) \/ DuResetDaily(p) \/ DuResetMonthly(p) \/ DuInc(p) \/ DuReread(p)

TestSteps(p) ==
    \/ TestResetDaily(p) \/ TestResetMonthly(p) \/ TestFashn(p)
    \/ TestTrackFind(p) \/ TestTrackInsert(p) \/ TestTrackUpdate(p)
    \/ TestTrackReread(p) \/ TestClamp(p)

Next ==
    \/ Tick
    \/ \E p \in Procs :
        \/ DuFind(p) \/ DuSteps(p)
        \/ TestStart(p) \/ TestSteps(p)
        \/ SyncStart(p) \/ SyncInsert(p) \/ SyncUpdate(p)
        \/ TtStart(p) \/ TtInsert(p) \/ TtReset(p) \/ TtInc(p) \/ TtReread(p)
        \/ CtStart(p) \/ CtResetDaily(p) \/ CtResetMonthly(p)
        \/ TaStart(p) \/ TaResetMonthly(p) \/ TaFashn(p)
        \/ UsStart(p) \/ UsResetDaily(p) \/ UsResetMonthly(p)
        \/ UcPost(p) \/ CoGet(p) \/ UcGet(p) \/ UcResetDaily(p) \/ UcResetMonthly(p)

-----------------------------------------------------------------------------
(* Initial states.  The collection is empty, or holds the record that k     *)
(* try-ons of a subscriber on the first day have left (SpecMonth reaches    *)
(* these records from the empty collection).                                *)

SeedCounts == {MonthlyLimit - 1, MonthlyLimit}

DeviceSeed(k) == NewDeviceDoc("d1", k, k, k, 0)

UserSeed(k) ==
    [NewUserDoc("u1", 0) EXCEPT !.daily_count = k, !.monthly_count = k,
                                !.total_count = k]

InitStores ==
    {<<>>} \cup {<<DeviceSeed(k)>> : k \in SeedCounts}
           \cup {<<UserSeed(k)>> : k \in SeedCounts}

Env(clients, tier, log, budget, lastDate) ==
    [clients |-> clients, tier |-> tier, log |-> log, budget |-> budget,
     lastDate |-> lastDate]

\* usage records in stores, predictions in preds, none at the service or
\* prediction pr1 being processed there
InitAll(stores, e, preds, service) ==
    /\ tryon_usage \in stores
    /\ clock = 0
    /\ procs = [p \in Procs |-> Idle]
    /\ started = 0
    /\ env = e
    /\ hist = <<>>
    /\ tryon_predictions = preds
    /\ fashn = service

InitWith(stores, e) == InitAll(stores, e, <<>>, "none")

\* the first day of the second year
NewYear == DaysPerMonth * MonthsPerYear

RaceStores ==
    {<<>>, <<DeviceSeed(MonthlyLimit - 1)>>, <<UserSeed(MonthlyLimit - 1)>>}

\* every endpoint, requests of both tiers overlapping at will, from the
\* first day to the first day of the next year
Init == InitWith(RaceStores, Env("concurrent", "any", FALSE, MaxRequests, NewYear))

Spec == Init /\ [][Next]_vars

\* every endpoint, one request at a time
InitSeq == InitWith(InitStores, Env("sequential", "any", FALSE, MaxRequests, MaxDate))

SpecSeq == InitSeq /\ [][Next]_vars

\* consume requests on one device, overlapping at will: the clients are all
\* free or all subscribed
NextRace ==
    \/ Tick
    \/ \E p \in Procs :
        \/ DuConsume(p) \/ DuSteps(p)
        \/ TestTracked(p) \/ TestSteps(p)

InitRace ==
    \/ InitWith({<<>>}, Env("concurrent", "free", FALSE, MaxRequests, NewYear))
    \/ InitWith({<<>>, <<DeviceSeed(MonthlyLimit - 1)>>},
                Env("concurrent", "subscribed", FALSE, MaxRequests, NewYear))

SpecRace == InitRace /\ [][NextRace]_vars

\* clients of either tier that send consume requests one after the other, on
\* every path that consumes a try-on
NextConsume ==
    \/ Tick
    \/ \E p \in Procs :
        \/ DuConsume(p) \/ DuSteps(p)
        \/ TestTracked(p) \/ TestSteps(p)
        \/ TtStart(p) \/ TtInsert(p) \/ TtReset(p) \/ TtInc(p) \/ TtReread(p)
        \/ TaStart(p) \/ TaResetMonthly(p) \/ TaFashn(p)

InitConsume == InitWith(InitStores, Env("sequential", "any", FALSE, MaxRequests, NewYear))

SpecConsume == InitConsume /\ [][NextConsume]_vars

\* clients that send consume requests one after the other, any of which may
\* be interrupted between two of its database operations
NextAbort ==
    \/ Tick
    \/ \E p \in Procs :
        \/ DuConsume(p) \/ DuSteps(p)
        \/ TestTracked(p) \/ TestSteps(p)
        \/ TtStart(p) \/ TtInsert(p) \/ TtReset(p) \/ TtInc(p) \/ TtReread(p)
        \/ DbTrackStart(p) \/ DbTrackUpdate(p) \/ DbTrackInsert(p)
        \/ Interrupt(p)

InitAbort == InitWith(InitStores, Env("sequential", "any", FALSE, MaxRequests, NewYear))

SpecAbort == InitAbort /\ [][NextAbort]_vars

\* consume requests of one client after the other on a store that may fail
NextFault ==
    \/ Tick
    \/ \E p \in Procs :
        \/ DuConsume(p) \/ DuSteps(p)
        \/ TestTracked(p) \/ TestSteps(p)
        \/ DuFindFails(p) \/ DuStepFails(p)
        \/ TestCheckFails(p) \/ TestCheckStepFails(p) \/ TestTrackFails(p)

InitFault == InitWith(InitStores, Env("sequential", "any", FALSE, MaxRequests, NewYear))

SpecFault == InitFault /\ [][NextFault]_vars

\* consume, check and reconcile requests for device d1 and for user u1,
\* overlapping at will, on a collection that also holds the record of a
\* device d2 no request names
OtherDevice == NewDeviceDoc("d2", 1, 1, 1, 0)

IsoStores ==
    {<<OtherDevice>>, <<UserSeed(MonthlyLimit - 1), OtherDevice, DeviceSeed(1)>>}

NextIso ==
    \/ Tick
    \/ \E p \in Procs :
        \/ DuFind(p) \/ DuSteps(p)
        \/ SyncStart(p) \/ SyncInsert(p) \/ SyncUpdate(p)
        \/ TtStart(p) \/ TtInsert(p) \/ TtReset(p) \/ TtInc(p) \/ TtReread(p)

InitIso == InitWith(IsoStores, Env("concurrent", "any", FALSE, MaxRequests, DaysPerMonth))

SpecIso == InitIso /\ [][NextIso]_vars

\* one free client that sends ScenarioCalls consume requests for a device
\* without a record, one after the other, on days of its choice
ScenarioCalls == 3

\* calls of database.track_tryon_usage for one user, overlapping at will
DbStores == {<<>>, <<NewDbDoc("u1", 0)>>}

NextDb ==
    \/ Tick
    \/ \E p \in Procs : DbTrackStart(p) \/ DbTrackUpdate(p) \/ DbTrackInsert(p)

InitDb == InitWith(DbStores, Env("concurrent", "any", FALSE, ScenarioCalls, DaysPerMonth - 1))

SpecDb == InitDb /\ [][NextDb]_vars

\* engagement requests and direct calls of database.track_tryon_usage of one
\* user, one after the other
NextEngage ==
    \/ Tick
    \/ \E p \in Procs :
        \/ TrackEngagement(p)
        \/ DbTrackStart(p) \/ DbTrackUpdate(p) \/ DbTrackInsert(p)

InitEngage == InitWith(DbStores, Env("sequential", "any", FALSE, ScenarioCalls, MaxDate))

SpecEngage == InitEngage /\ [][NextEngage]_vars

\* POST /test requests of subscribers that name device d1 and track, and POST /try-async
\* requests of user u1, overlapping at will, to the first day of the second
\* month
ClampStores ==
    {<<>>, <<DeviceSeed(MonthlyLimit - 1)>>,
     <<UserSeed(MonthlyLimit - 1), DeviceSeed(MonthlyLimit)>>}

NextClamp ==
    \/ Tick
    \/ \E p \in Procs :
        \/ TestTracked(p) \/ TestSteps(p)
        \/ TaStart(p) \/ TaResetMonthly(p) \/ TaFashn(p)

InitClamp == InitWith(ClampStores, Env("concurrent", "subscribed", FALSE, MaxRequests, DaysPerMonth))

SpecClamp == InitClamp /\ [][NextClamp]_vars

\* status requests of user u1, overlapping at will, while the service
\* processes prediction pr1
StoredPredictions == <<NewPrediction("pr1", "u1"), NewPrediction("pr2", "u2")>>

NextStatus ==
    \/ Tick
    \/ FashnAdvance
    \/ \E p \in Procs : StStart(p) \/ StFashn(p) \/ StUpdate(p)

InitStatus ==
    InitAll({<<>>}, Env("concurrent", "any", FALSE, ScenarioCalls, DaysPerMonth - 1),
            StoredPredictions, "processing")

SpecStatus == InitStatus /\ [][NextStatus]_vars

NextDevice ==
    \/ Tick
    \/ \E p \in Procs : DuConsume(p) \/ DuSteps(p)

InitFree == InitWith({<<>>}, Env("sequential", "free", TRUE, ScenarioCalls, MaxDate))

SpecFree == InitFree /\ [][NextDevice]_vars

\* logged consume requests of device-usage for a device without a record,
\* overlapping at will
InitLogged == InitWith({<<>>}, Env("concurrent", "any", TRUE, MaxRequests, NewYear))

SpecLogged == InitLogged /\ [][NextDevice]_vars

\* one subscriber that sends MonthlyLimit + 1 consume requests for a device
\* without a record, one after the other, on days of the first month
NextMonth ==
    \/ Tick
    \/ \E p \in Procs :
        \/ DuConsume(p) \/ DuInsert(p) \/ DuResetDaily(p) \/ DuInc(p) \/ DuReread(p)

InitMonth ==
    InitWith({<<>>}, Env("sequential", "subscribed", TRUE, MonthlyLimit + 1,
                         DaysPerMonth - 1))

SpecMonth == InitMonth /\ [][NextMonth]_vars

-----------------------------------------------------------------------------
(* Vocabulary of the properties *)

Done(p) == procs[p].pc = "done"

\* the record of a device or user in a collection, and whether it has one
DeviceDoc(coll, d) == FindOne(coll, "device_id", d)
HasDevice(coll, d) == Found(coll, "device_id", d)
UserDoc(coll, u) == FindOne(coll, "user_id", u)
HasUser(coll, u) == Found(coll, "user_id", u)

\* the record of the subject of a frame, in a collection
IsUserOp(r) ==
    r.op \in {"track_tryon_usage", "check_tryon_limit", "try_async", "usage", "db_track"}
SubjectDoc(coll, r) == IF IsUserOp(r) THEN UserDoc(coll, r.id) ELSE DeviceDoc(coll, r.id)
HasSubject(coll, r) == IF IsUserOp(r) THEN HasUser(coll, r.id) ELSE HasDevice(coll, r.id)

\* the counts in force at date now: 0 for a window that has rolled over
EffDaily(doc, now) ==
    IF now > doc.last_reset_daily THEN 0 ELSE doc.daily_count
EffMonthly(doc, now) ==
    IF FirstOfMonth(now) > doc.last_reset_monthly THEN 0 ELSE doc.monthly_count

DocCounts(doc) == Counts(doc.daily_count, doc.monthly_count, doc.total_count)

\* a request that may consume a try-on
IsConsume(r) ==
    \/ r.op = "device_usage" /\ ~r.flag
    \/ r.op = "test" /\ r.id # None /\ ~r.flag
    \/ r.op \in {"track_tryon_usage", "try_async"}

MonthlyDenied(r) == r.res \in {"MONTHLY_LIMIT_REACHED", "http403_monthly"}

-----------------------------------------------------------------------------
(* C1 *)

\* C1: at every moment the stored monthly_count of a subject is at most 40
\* and its stored daily_count is at most the daily limit of the subject's
\* tier, however the consume requests of its clients overlap.
C1_NoOvershoot ==
    \A i \in 1..Len(tryon_usage) :
        /\ Get(tryon_usage[i], "monthly_count", 0) <= MonthlyLimit
        /\ Get(tryon_usage[i], "daily_count", 0) <= DailyLimit(env.tier = "subscribed")

-----------------------------------------------------------------------------
(* C2 *)

\* the overlapping consume requests POST /device-usage answered on the first
\* day, one per process
RaceOver ==
    /\ clock = 0
    /\ started = NumProcs
    /\ \A p \in Procs : Done(p) /\ procs[p].op = "device_usage"

\* C2: when the free clients of a device that has one try-on left today (a
\* device without a record included) send one consume request each at the
\* same time, exactly one request is allowed and every other one is denied
\* with DAILY_LIMIT_REACHED.
C2_OneWinner ==
    (env.tier = "free" /\ RaceOver) =>
        \E p \in Procs :
            /\ procs[p].res = "allowed"
            /\ \A q \in Procs \ {p} : procs[q].res = "DAILY_LIMIT_REACHED"

-----------------------------------------------------------------------------
(* C3 *)

\* the collection the k-th logged request left behind, known once the next
\* request has started or while no request is being served
Settled(k) == k < Len(hist) \/ \A p \in Procs : ~Active(p)
PostOf(k) == IF k < Len(hist) THEN hist[k + 1].pre ELSE tryon_usage

-----------------------------------------------------------------------------
(* C4 *)

-----------------------------------------------------------------------------
(* C5 *)

\* an answered consume request POST /device-usage whose device had a record
\* with daily_count = 1, a monthly_count below the limit and a last daily
\* reset on an earlier UTC day
DailyRolled(r) ==
    /\ r.pc = "done" /\ r.op = "device_usage" /\ ~r.flag
    /\ HasDevice(r.pre, r.id)
    /\ DeviceDoc(r.pre, r.id).last_reset_daily # Absent
    /\ DeviceDoc(r.pre, r.id).last_reset_daily < r.now
    /\ DeviceDoc(r.pre, r.id).daily_count = 1
    /\ DeviceDoc(r.pre, r.id).monthly_count # Absent
    /\ DeviceDoc(r.pre, r.id).monthly_count < MonthlyLimit

\* C5: a consume for a record whose last_reset_daily is on an earlier UTC day
\* than now, with daily_count = 1 and monthly_count < 40, is allowed and
\* leaves daily_count = 1 and last_reset_daily = today.
C5_DailyRollover ==
    \A p \in Procs :
        DailyRolled(procs[p]) =>
            /\ procs[p].res = "allowed"
            /\ DeviceDoc(tryon_usage, procs[p].id).daily_count = 1
            /\ DeviceDoc(tryon_usage, procs[p].id).last_reset_daily = procs[p].now

\* a free client was allowed again on the day after it used its daily try-on
C5_Witness ==
    \E p \in Procs :
        /\ DailyRolled(procs[p]) /\ ~procs[p].sub
        /\ procs[p].res = "allowed"
        /\ DeviceDoc(tryon_usage, procs[p].id).last_reset_daily = procs[p].now

-----------------------------------------------------------------------------
(* C6 *)

\* an answered POST /device-usage request whose device had a record with a
\* last monthly reset before the first day of the month of the request
MonthRolled(r) ==
    /\ r.pc = "done" /\ r.op = "device_usage"
    /\ HasDevice(r.pre, r.id)
    /\ DeviceDoc(r.pre, r.id).last_reset_monthly # Absent
    /\ FirstOfMonth(r.now) > DeviceDoc(r.pre, r.id).last_reset_monthly

\* C6: whenever the first day of the current UTC month is later than the
\* record's last_reset_monthly, whatever the two months are (December and
\* the next January included), a check reports monthly_count = 0, a consume
\* is not denied for the monthly limit, and an allowed consume leaves
\* monthly_count = 1 and last_reset_monthly = the first day of the month.
C6_MonthlyRollover ==
    \A p \in Procs :
        MonthRolled(procs[p]) =>
            LET r == procs[p]
                after == DeviceDoc(tryon_usage, r.id)
            IN  /\ r.flag => r.out.monthly_count = 0
                /\ ~r.flag => r.res # "MONTHLY_LIMIT_REACHED"
                /\ (~r.flag /\ r.res = "allowed") =>
                    /\ after.monthly_count = 1
                    /\ after.last_reset_monthly = FirstOfMonth(r.now)

-----------------------------------------------------------------------------
(* C7 *)

\* an answered request of a free client on a limit-enforcing path, whose
\* subject had reached the daily and the monthly limit
BothLimitsReached(r) ==
    /\ r.pc = "done" /\ ~r.sub
    /\ \/ r.op = "device_usage" /\ ~r.flag
       \/ r.op = "test" /\ r.id # None /\ ~r.flag
       \/ r.op \in {"check_tryon_limit", "try_async"}
    /\ HasSubject(r.pre, r)
    /\ SubjectDoc(r.pre, r).last_reset_daily # Absent
    /\ SubjectDoc(r.pre, r).last_reset_monthly # Absent
    /\ EffDaily(SubjectDoc(r.pre, r), r.now) >= FreeDailyLimit
    /\ EffMonthly(SubjectDoc(r.pre, r), r.now) >= MonthlyLimit

\* C7: a free subject at or above both the daily limit of 1 and the monthly
\* limit of 40 is given the monthly reason, not the daily one, by the
\* device-usage consume, by check_device_tryon_limits in POST /test, by
\* check_tryon_limit and by the try-async gate.
C7_MonthlyReasonFirst ==
    \A p \in Procs : BothLimitsReached(procs[p]) => MonthlyDenied(procs[p])

-----------------------------------------------------------------------------
(* C8 *)

\* an answered consume request of a subscriber whose subject had a monthly
\* count of 40 in the month of the request
SubscriberAtCap(r) ==
    /\ r.pc = "done" /\ r.sub /\ IsConsume(r)
    /\ HasSubject(r.pre, r)
    /\ SubjectDoc(r.pre, r).last_reset_monthly # Absent
    /\ EffMonthly(SubjectDoc(r.pre, r), r.now) = MonthlyLimit

-----------------------------------------------------------------------------
(* C9 *)

\* an answered POST /sync-stats request for a device that had a record
Synced(r) ==
    /\ r.pc = "done" /\ r.op = "sync_stats"
    /\ HasDevice(r.pre, r.id)

\* C9: a sync-stats request with a client count lower than the stored one
\* leaves the stored counts unchanged; one with higher client counts raises
\* the stored counts to the client's.
C9_MonotonicReconcile ==
    \A p \in Procs :
        Synced(procs[p]) =>
            LET c == procs[p].client
                before == DocCounts(DeviceDoc(procs[p].pre, procs[p].id))
                after == DocCounts(DeviceDoc(tryon_usage, procs[p].id))
            IN  /\ (\/ c.daily_count < before.daily_count
                    \/ c.monthly_count < before.monthly_count
                    \/ c.total_count < before.total_count) => after = before
                /\ (/\ c.daily_count > before.daily_count
                    /\ c.monthly_count > before.monthly_count
                    /\ c.total_count > before.total_count) => after = c

-----------------------------------------------------------------------------
(* C10 *)

\* the stored lifetime count of a subject, 0 without a record
TotalOf(coll, field, id) == Get(FindOne(coll, field, id), "total_count", 0)

\* C10: no step of any try-on endpoint lowers the stored total_count of a
\* device or of a user.
C10_LifetimeMonotonic ==
    [][/\ \A d \in Devices :
            TotalOf(tryon_usage', "device_id", d) >= TotalOf(tryon_usage, "device_id", d)
       /\ \A u \in Users :
            TotalOf(tryon_usage', "user_id", u) >= TotalOf(tryon_usage, "user_id", u)]_vars

-----------------------------------------------------------------------------
(* C11 *)

\* a request that only asks for the counts
IsCheck(r) ==
    \/ r.op = "device_usage" /\ r.flag
    \/ r.op \in {"usage_check_post", "usage_check_get", "check_only", "usage"}

\* an answered check request whose subject had a record
Checked(r) ==
    /\ r.pc = "done" /\ IsCheck(r)
    /\ HasSubject(r.pre, r)

\* C11: a check request (device-usage with check_only, GET and POST
\* /usage-check, GET /check-only, GET /usage) leaves the stored daily_count,
\* monthly_count and total_count of its subject as they were, so any number
\* of checks on one day without a consume in between changes no counter.
C11_ChecksKeepCounts ==
    \A p \in Procs :
        Checked(procs[p]) =>
            DocCounts(SubjectDoc(tryon_usage, procs[p]))
                = DocCounts(SubjectDoc(procs[p].pre, procs[p]))

-----------------------------------------------------------------------------
(* C12 *)

\* C12: a check request writes nothing to the usage collection, whether or
\* not a window has rolled over, force_db or check_only included.
C12_CheckWritesNothing ==
    \A p \in Procs :
        (procs[p].pc = "done" /\ IsCheck(procs[p])) => tryon_usage = procs[p].pre

-----------------------------------------------------------------------------
(* C13 *)

\* an answered check request whose subject had a record with both reset
\* timestamps
CheckedRecord(r) ==
    /\ Checked(r)
    /\ SubjectDoc(r.pre, r).last_reset_daily # Absent
    /\ SubjectDoc(r.pre, r).last_reset_monthly # Absent

\* C13: the daily_count and monthly_count a check endpoint returns are the
\* counts in force: 0 for a window that has rolled over since the stored
\* reset timestamp, the stored count otherwise (GET /usage after a day and a
\* month boundary returns monthly_count = 0).
C13_CheckReportsEffective ==
    \A p \in Procs :
        CheckedRecord(procs[p]) =>
            /\ procs[p].out.daily_count
                = EffDaily(SubjectDoc(procs[p].pre, procs[p]), procs[p].now)
            /\ procs[p].out.monthly_count
                = EffMonthly(SubjectDoc(procs[p].pre, procs[p]), procs[p].now)

-----------------------------------------------------------------------------
(* C14 *)

\* an answered consume request of device-usage or track_tryon_usage that was
\* denied for a limit
DeniedConsume(r) ==
    /\ r.pc = "done"
    /\ \/ r.op = "device_usage" /\ ~r.flag
       \/ r.op = "track_tryon_usage"
    /\ r.res \in {"DAILY_LIMIT_REACHED", "MONTHLY_LIMIT_REACHED"}

\* C14: when a consume is denied for the daily or the monthly limit, the
\* usage record after the request is the record before it, also when the
\* daily window had rolled over and the denial is for the monthly limit.
C14_DeniedWritesNothing ==
    \A p \in Procs : DeniedConsume(procs[p]) => tryon_usage = procs[p].pre

-----------------------------------------------------------------------------
(* C15 *)

\* an answered request of a free client on a path that enforces the daily
\* limit, whose subject had its last daily reset on an earlier day
EarlierDay(r) ==
    /\ r.pc = "done" /\ ~r.sub /\ IsConsume(r)
    /\ HasSubject(r.pre, r)
    /\ SubjectDoc(r.pre, r).last_reset_daily # Absent
    /\ SubjectDoc(r.pre, r).last_reset_daily < r.now

\* the daily denial of a path
DailyDenied(r) == r.res \in {"DAILY_LIMIT_REACHED", "http403_daily"}

\* C15: the device-usage consume, check_device_tryon_limits of POST /test,
\* track_tryon_usage and the try-async gate take the daily count as 0 when
\* the date is later than that of the stored daily reset: a free subject
\* whose last try-on was on an earlier day is not denied for the daily limit.
C15_DailyLimitUsesToday ==
    \A p \in Procs : EarlierDay(procs[p]) => ~DailyDenied(procs[p])

-----------------------------------------------------------------------------
(* C16 *)

\* the records of a device in the collection
RecordsOf(d) == {i \in 1..Len(tryon_usage) : tryon_usage[i].device_id = d}

\* C16: however the first requests for a device overlap (device-usage,
\* sync-stats, the tracking of POST /test), the collection holds at most one
\* record with its device_id.
C16_OneRecordPerDevice ==
    \A d \in Devices : Cardinality(RecordsOf(d)) <= 1

-----------------------------------------------------------------------------
(* C17 *)

\* a consume request that has ended, answered or interrupted
EndedConsume(r) ==
    /\ r.pc = "done"
    /\ \/ r.op = "device_usage" /\ ~r.flag
       \/ r.op = "test" /\ r.id # None /\ ~r.flag
       \/ r.op \in {"track_tryon_usage", "db_track"}

\* between two records of a subject: no counter was advanced (a window may
\* have been reset) / each of the three counters was advanced by one (a
\* window that rolled over restarts at 1)
NoneAdvanced(before, after) ==
    /\ Get(after, "total_count", 0) = Get(before, "total_count", 0)
    /\ Get(after, "daily_count", 0) \in {Get(before, "daily_count", 0), 0}
    /\ Get(after, "monthly_count", 0) \in {Get(before, "monthly_count", 0), 0}
AllAdvanced(before, after) ==
    /\ Get(after, "total_count", 0) = Get(before, "total_count", 0) + 1
    /\ Get(after, "daily_count", 0) \in {Get(before, "daily_count", 0) + 1, 1}
    /\ Get(after, "monthly_count", 0) \in {Get(before, "monthly_count", 0) + 1, 1}

\* C17: when a consume request ends, interrupted between two database
\* operations or not, the stored daily_count, monthly_count and total_count
\* of its subject have all been advanced for the request or none has.
C17_NoPartialIncrement ==
    \A p \in Procs :
        EndedConsume(procs[p]) =>
            \/ NoneAdvanced(SubjectDoc(procs[p].pre, procs[p]),
                            SubjectDoc(tryon_usage, procs[p]))
            \/ AllAdvanced(SubjectDoc(procs[p].pre, procs[p]),
                           SubjectDoc(tryon_usage, procs[p]))

-----------------------------------------------------------------------------
(* C18 *)

\* a request that names no subject: POST /test with no device_id in the
\* form, the X-Device-Id header or the query string
NoSubject(r) == r.op = "test" /\ r.id = None

\* C18: a request whose subject id is empty is rejected before the usage
\* store is touched: it never reaches the try-on service, it ends with an
\* error, and the collection is as the request met it.
C18_EmptySubjectRejected ==
    \A p \in Procs :
        NoSubject(procs[p]) =>
            /\ procs[p].pc # "t_fashn"
            /\ procs[p].pc = "done" =>
                   /\ procs[p].res # "pending"
                   /\ tryon_usage = procs[p].pre

-----------------------------------------------------------------------------
(* C19 *)

\* a consume request that met a failure of the usage store
Faulted(r) == r.fault /\ r.op \in {"device_usage", "test"}

\* C19: a consume request that met a failing read or write of the usage
\* store does not reach the try-on service, and it ends with an error
\* response and with no counter of its subject advanced.
C19_StorageFailureFatal ==
    \A p \in Procs :
        Faulted(procs[p]) =>
            /\ procs[p].pc # "t_fashn"
            /\ procs[p].pc = "done" =>
                   /\ procs[p].res = "http500"
                   /\ NoneAdvanced(SubjectDoc(procs[p].pre, procs[p]),
                                   SubjectDoc(tryon_usage, procs[p]))

-----------------------------------------------------------------------------
(* C20 *)

\* the stored record of the device of a frame carries the counts the frame
\* decided on (the counts it read, a window it has reset counting 0)
Unchanged(coll, r) ==
    LET doc == DeviceDoc(coll, r.id)
    IN  /\ Get(doc, "daily_count", 0) = r.daily
        /\ Get(doc, "monthly_count", 0) = r.monthly
        /\ Get(doc, "total_count", 0) = r.total

\* process p of device-usage writes its consumption in this step
DuWrites(p) ==
    /\ procs[p].pc \in {"du_inc", "du_insert"}
    /\ procs'[p].pc # procs[p].pc

\* C20: device-usage never writes a consumption decided on a record another
\* writer has changed since it was read: when it increments, the stored
\* counts are those it decided on, and when it inserts, the device still has
\* no record.
C20_NoStaleIncrement ==
    [][\A p \in Procs :
          DuWrites(p) =>
              IF procs[p].pc = "du_inc"
              THEN Unchanged(tryon_usage, procs[p])
              ELSE ~HasDevice(tryon_usage, procs[p].id)]_vars

-----------------------------------------------------------------------------
(* C21 *)

\* the record doc belongs to the subject of the frame r
OfSubject(doc, r) ==
    IF IsUserOp(r) THEN doc.user_id = r.id ELSE doc.device_id = r.id

\* the records of the collection that belong to other subjects, in order
Others(coll, r) ==
    LET Keep(doc) == ~OfSubject(doc, r) IN SelectSeq(coll, Keep)

\* C21: a step of a request for one subject leaves every record of every
\* other subject as it was, field by field, whether the other subject is a
\* device or a user of the same collection.
C21_SubjectIsolation ==
    [][\A p \in Procs :
          procs'[p] # procs[p] =>
              Others(tryon_usage', procs'[p]) = Others(tryon_usage, procs'[p])]_vars

\* requests for d1 and for u1 have both written while the records of d2, u1
\* and d1 are in the collection
C21_Witness ==
    /\ HasDevice(tryon_usage, "d2")
    /\ \E p, q \in Procs :
          /\ Done(p) /\ procs[p].op = "device_usage" /\ procs[p].res = "allowed"
          /\ Done(q) /\ procs[q].op = "track_tryon_usage" /\ procs[q].res = "allowed"
          /\ TotalOf(tryon_usage, "device_id", "d1") >= 2
          /\ TotalOf(tryon_usage, "user_id", "u1") >= 2

-----------------------------------------------------------------------------
(* C22 *)

\* the ids of the records of a collection, in order
IdsOf(coll) == [i \in 1..Len(coll) |-> <<coll[i].device_id, coll[i].user_id>>]

\* the step leaves every record in its place and adds none / adds records
NoneDeleted(before, after) ==
    /\ Len(after) >= Len(before)
    /\ SubSeq(IdsOf(after), 1, Len(before)) = IdsOf(before)
Creates(before, after) == Len(after) > Len(before)

\* a check request answered for a subject that had no record
CheckedUnseen(r) ==
    /\ r.pc = "done" /\ IsCheck(r)
    /\ ~HasSubject(r.pre, r)

\* C22: no step of a try-on endpoint deletes a record; a record is created
\* by a step of a consume request only; a check request for a subject
\* without a record answers with zero counts and creates none.
C22_LazyCreationNoDeletion ==
    [][/\ NoneDeleted(tryon_usage, tryon_usage')
       /\ \A p \in Procs :
             procs'[p] # procs[p] =>
                 /\ Creates(tryon_usage, tryon_usage') => IsConsume(procs'[p])
                 /\ CheckedUnseen(procs'[p]) =>
                        /\ procs'[p].out = Counts(0, 0, 0)
                        /\ tryon_usage' = procs'[p].pre]_vars

-----------------------------------------------------------------------------
(* C23 *)

\* process p ends a call of database.track_tryon_usage in this step, on the
\* day the call began and the stored record, if any, was last reset
DbCallEnds(p) ==
    /\ procs[p].op = "db_track"
    /\ procs[p].pc # "done" /\ procs'[p].pc = "done"
    /\ procs[p].now = clock
    /\ Get(UserDoc(tryon_usage, procs[p].id), "last_reset", clock) = clock

\* C23: every call of database.track_tryon_usage for a user, whatever calls
\* it overlaps with, advances the stored daily_count and total_count of the
\* user by exactly 1 (a user without a record counting 0).
C23_DbTrackCountsEveryCall ==
    [][\A p \in Procs :
          DbCallEnds(p) =>
              /\ Get(UserDoc(tryon_usage', procs[p].id), "daily_count", 0)
                    = Get(UserDoc(tryon_usage, procs[p].id), "daily_count", 0) + 1
              /\ Get(UserDoc(tryon_usage', procs[p].id), "total_count", 0)
                    = Get(UserDoc(tryon_usage, procs[p].id), "total_count", 0) + 1]_vars

-----------------------------------------------------------------------------
(* C24 *)

\* an engagement request of type 'tryon' that was answered success
TryonEngaged(r) ==
    /\ r.pc = "done" /\ r.op = "track_engagement"
    /\ r.flag /\ r.res = "success"

\* C24: when a POST /track-engagement request of type 'tryon' is answered
\* success, the user has a record in tryon_usage whose total_count is one
\* more than before the request (1 for a user who had none).
C24_EngagementReachesStore ==
    \A p \in Procs :
        TryonEngaged(procs[p]) =>
            /\ HasUser(tryon_usage, procs[p].id)
            /\ TotalOf(tryon_usage, "user_id", procs[p].id)
                  = TotalOf(procs[p].pre, "user_id", procs[p].id) + 1

-----------------------------------------------------------------------------
(* C25 *)

\* no POST /test or POST /try-async request is being served
TrackingsOver ==
    \A p \in Procs : ~(Active(p) /\ procs[p].op \in {"test", "try_async"})

\* C25: when no POST /test and no POST /try-async request is in flight,
\* every record of a device holds a monthly_count of at most 40, however the
\* requests that have run overlapped.
C25_ClampAfterTracking ==
    TrackingsOver =>
        \A d \in Devices : \A i \in RecordsOf(d) :
            Get(tryon_usage[i], "monthly_count", 0) <= MonthlyLimit

\* two overlapping POST /test requests have both counted their try-on on a
\* record that held 39: total_count is 41 and monthly_count was clamped to 40
C25_Witness ==
    /\ TrackingsOver
    /\ \A p \in Procs : Done(p) /\ procs[p].op = "test" /\ procs[p].res = "pending"
    /\ TotalOf(tryon_usage, "device_id", "d1") = MonthlyLimit + 1
    /\ Get(DeviceDoc(tryon_usage, "d1"), "monthly_count", 0) = MonthlyLimit

-----------------------------------------------------------------------------
(* C26 *)

\* a POST /test request for a device, with tracking, that ended in an error:
\* 403 from the limit check, 500 for a failed call of the try-on service or
\* for its reply without a prediction id
TestFailed(r) ==
    /\ r.pc = "done" /\ r.op = "test"
    /\ r.id # None /\ ~r.flag
    /\ r.res \in {"http403_daily", "http403_monthly", "http500"}

\* C26: a POST /test request that ends in an error response has advanced
\* none of daily_count, monthly_count and total_count of its device.
C26_FailedStartConsumesNothing ==
    \A p \in Procs :
        TestFailed(procs[p]) =>
            NoneAdvanced(DeviceDoc(procs[p].pre, procs[p].id),
                         DeviceDoc(tryon_usage, procs[p].id))

\* the try-on service has failed a request for a device that has a record
\* with counts below the limits
C26_Witness ==
    \E p \in Procs :
        /\ TestFailed(procs[p]) /\ procs[p].res = "http500"
        /\ HasDevice(procs[p].pre, procs[p].id)
        /\ TotalOf(tryon_usage, "device_id", procs[p].id) = MonthlyLimit - 1

-----------------------------------------------------------------------------
(* C27 *)

\* the counts in force at date now are at a limit of the tier
AtLimit(doc, sub, now) ==
    \/ EffMonthly(doc, now) >= MonthlyLimit
    \/ ~sub /\ EffDaily(doc, now) >= FreeDailyLimit

\* a POST /test request that names a device whose record was at a limit
\* when the request arrived
GatedTest(r) ==
    /\ r.op = "test" /\ r.id # None
    /\ HasDevice(r.pre, r.id)
    /\ AtLimit(DeviceDoc(r.pre, r.id), r.sub, r.now)

\* C27: a POST /test request that names a device at its daily or monthly
\* limit is never passed to the try-on service, whatever its other
\* parameters (skip_usage_tracking included) are.
C27_GateNotBypassed ==
    \A p \in Procs : GatedTest(procs[p]) => procs[p].pc # "t_fashn"

-----------------------------------------------------------------------------
(* C28 *)

-----------------------------------------------------------------------------
(* C29 *)

\* 0 <= daily_count <= monthly_count <= total_count in every record
Ordered(coll) ==
    \A i \in 1..Len(coll) :
        /\ 0 <= Get(coll[i], "daily_count", 0)
        /\ Get(coll[i], "daily_count", 0) <= Get(coll[i], "monthly_count", 0)
        /\ Get(coll[i], "monthly_count", 0) <= Get(coll[i], "total_count", 0)

\* the endpoints of the claim: all but sync-stats
OrderingOps ==
    {"device_usage", "usage_check_post", "usage_check_get", "check_only",
     "usage", "test", "try_async"}

\* C29: a step of device-usage, usage-check, check-only, usage, test or
\* try-async on a collection in which every record has
\* 0 <= daily_count <= monthly_count <= total_count leaves it so.
C29_CounterOrdering ==
    [][\A p \in Procs :
          (procs'[p] # procs[p] /\ procs'[p].op \in OrderingOps
             /\ Ordered(tryon_usage)) => Ordered(tryon_usage')]_vars

-----------------------------------------------------------------------------
(* C30 *)

\* the number of requests answered as allowed so far
AllowedAnswers == Cardinality({i \in 1..Len(hist) : hist[i].res = "allowed"})

\* C30: when no device-usage request is in flight, the stored total_count
\* of the device equals the number of consume requests that were answered
\* as allowed.
C30_TotalEqualsAllowed ==
    (\A p \in Procs : ~Active(p)) =>
        \A d \in Devices : TotalOf(tryon_usage, "device_id", d) = AllowedAnswers

====
